---- MODULE Spec2Model ----
(***************************************************************************)
(* Pixelita (src/pixelart.py): a pixel-art canvas widget (PixelArtCanvas)  *)
(* and the application window that owns the persisted theme (PixelArtApp). *)
(*                                                                         *)
(* Spec        the theme store: constructor, change_theme, reset_theme     *)
(* SpecCanvas  the canvas: mouse events, change_color, resize              *)
(* SpecExport  the canvas together with save_image                         *)
(***************************************************************************)
EXTENDS Integers, Sequences, FiniteSets, TLC

VARIABLES
    pc,             \* "init" before PixelArtApp(), "running" in the event loop, "crashed" after an uncaught exception
    err,            \* the exception that ended the program, "none" otherwise
    file,           \* config.json: [exists, text], text a sequence of JSON tokens
    heap,           \* the dict objects: heap.d is the object default_style names, heap.c the other one
    current_style,  \* which object self.current_style names: "unset", "c" or "d"
    styleSheet,     \* what apply_style last set on the window and buttons
    lastOp,         \* the handler that ran last
    mutated,        \* some change_theme dialog was accepted since startup
    image,          \* self.image: cell -> color
    drawing,        \* self.drawing
    brush_color,    \* self.brush_color
    buttons,        \* mouse buttons currently held down (event.buttons())
    leftDrag,       \* a left-button press was delivered and that button is not yet released
    widget,         \* <<self.width(), self.height()>> given by the layout
    saveResult      \* what scaled.save(filename) returned in the last save_image

themeVars  == <<pc, err, file, heap, current_style, styleSheet, lastOp, mutated>>
canvasVars == <<image, drawing, brush_color, buttons, leftDrag, widget, saveResult>>
vars       == <<pc, err, file, heap, current_style, styleSheet, lastOp, mutated,
                image, drawing, brush_color, buttons, leftDrag, widget, saveResult>>

----------------------------------------------------------------------------
(* Python dicts: a sequence of <<key, value>> pairs in insertion order,    *)
(* keys unique.                                                            *)

HasKey(d, k) == \E i \in 1..Len(d) : d[i][1] = k

GetItem(d, k) == d[CHOOSE i \in 1..Len(d) : d[i][1] = k][2]

SetItem(d, k, v) ==
    IF HasKey(d, k)
    THEN [i \in 1..Len(d) |-> IF d[i][1] = k THEN <<k, v>> ELSE d[i]]
    ELSE Append(d, <<k, v>>)

Items(d) == {d[i] : i \in 1..Len(d)}

\* dict.__eq__: same keys with the same values, order ignored
DictEq(a, b) == Items(a) = Items(b)

\* the literal of PixelArtApp.__init__
DefaultStyleLiteral ==
    << <<"window_color", "#f3e6ff">>,
       <<"button_color", "#b57edc">>,
       <<"font", "Comic Sans MS">> >>

StyleKeys == {"window_color", "button_color", "font"}

----------------------------------------------------------------------------
(* JSON text as a token sequence: punctuation and string literals.         *)

Punct == {"{", "}", ":", ","}

RECURSIVE DumpMembers(_)
DumpMembers(d) ==
    IF Len(d) = 0 THEN <<>>
    ELSE IF Len(d) = 1 THEN <<d[1][1], ":", d[1][2]>>
    ELSE <<d[1][1], ":", d[1][2], ",">> \o DumpMembers(Tail(d))

\* json.dump of a dict of strings
JsonDumpDropLast(d) ==
    <<"{">> \o DumpMembers(IF Len(d) = 0 THEN d ELSE SubSeq(d, 1, Len(d) - 1)) \o <<"}">>

JsonDump(d) == <<"{">> \o DumpMembers(d) \o <<"}">>

\* the members between the braces: [ok, dict]
RECURSIVE ParseMembers(_, _)
ParseMembers(t, acc) ==
    IF Len(t) < 3 THEN [ok |-> FALSE, dict |-> <<>>]
    ELSE IF t[1] \in Punct \/ t[2] # ":" \/ t[3] \in Punct
         THEN [ok |-> FALSE, dict |-> <<>>]
    ELSE IF Len(t) = 3 THEN [ok |-> TRUE, dict |-> SetItem(acc, t[1], t[3])]
    ELSE IF t[4] # "," THEN [ok |-> FALSE, dict |-> <<>>]
    ELSE ParseMembers(SubSeq(t, 5, Len(t)), SetItem(acc, t[1], t[3]))

\* json.load: ok = FALSE stands for json.JSONDecodeError
JsonLoad(t) ==
    IF Len(t) < 2 \/ t[1] # "{" \/ t[Len(t)] # "}"
    THEN [ok |-> FALSE, dict |-> <<>>]
    ELSE IF Len(t) = 2 THEN [ok |-> TRUE, dict |-> <<>>]
    ELSE ParseMembers(SubSeq(t, 2, Len(t) - 1), <<>>)

----------------------------------------------------------------------------
(* Theme store                                                             *)

NoFile == [exists |-> FALSE, text |-> <<>>]
FileOf(t) == [exists |-> TRUE, text |-> t]

\* contents config.json may have when the program starts
InitialFiles ==
    { NoFile,
      FileOf(<<>>),
      FileOf(<<"{", "window_color", ":", "#000000">>),
      FileOf(<<"{", "}">>),
      FileOf(JsonDump(DefaultStyleLiteral)),
      FileOf(JsonDump(<< <<"font", "Arial">>, <<"button_color", "#111111">>,
                         <<"window_color", "#000000">> >>)),
      FileOf(JsonDump(<< <<"window_color", "#000000">>, <<"button_color", "#111111">> >>)),
      FileOf(<<"{", "font", ":", "Arial", ",", "font", ":", "Comic Sans MS", ",",
               "window_color", ":", "#000000", ",", "button_color", ":", "#111111", "}">>) }

\* what the color dialogs can return: a color name, or "invalid" on cancel
DialogColors == {"invalid", "#000000", "#123456"}
\* what the font dialog can return: <<family, ok>>
DialogFonts == {<<"Arial", TRUE>>, <<"Arial", FALSE>>, <<"Courier", TRUE>>}

\* load_config: [err, ref, heap]; on success self.current_style names heap[ref]
load_config_alias(h, f) ==
    IF f.exists
    THEN LET r == JsonLoad(f.text)
         IN  IF r.ok THEN [err |-> "none", ref |-> "c", heap |-> [h EXCEPT !.c = r.dict]]
             ELSE [err |-> "JSONDecodeError", ref |-> "unset", heap |-> h]
    ELSE [err |-> "none", ref |-> "d", heap |-> h]

load_config(h, f) ==
    IF f.exists
    THEN LET r == JsonLoad(f.text)
         IN  IF r.ok THEN [err |-> "none", ref |-> "c", heap |-> [h EXCEPT !.c = r.dict]]
             ELSE [err |-> "JSONDecodeError", ref |-> "unset", heap |-> h]
    ELSE [err |-> "none", ref |-> "c", heap |-> [h EXCEPT !.c = h.d]]

\* apply_style reads style['window_color'], style['font'], style['button_color']
ApplyRaises(d) == \E k \in StyleKeys : ~HasKey(d, k)

apply_style(d) ==
    [window |-> GetItem(d, "window_color"), font |-> GetItem(d, "font"),
     button |-> GetItem(d, "button_color")]

\* save_config: open(CONFIG_FILE, "w") then json.dump(self.current_style, f)
save_config_default(h, ref) == FileOf(JsonDump(h.d))

save_config(h, ref) == FileOf(JsonDump(h[ref]))

\* self.current_style = self.default_style.copy()
reset_copy(h) == [h EXCEPT !.c = h.d]

\* PixelArtApp.__init__: default_style literal, load_config, apply_style
Startup ==
    /\ pc = "init"
    /\ LET h0 == [heap EXCEPT !.d = DefaultStyleLiteral]
           r  == load_config(h0, file)
       IN  /\ heap' = r.heap
           /\ current_style' = r.ref
           /\ IF r.err # "none"
              THEN /\ pc' = "crashed"
                   /\ err' = r.err
                   /\ styleSheet' = styleSheet
              ELSE IF ApplyRaises(r.heap[r.ref])
              THEN /\ pc' = "crashed"
                   /\ err' = "KeyError"
                   /\ styleSheet' = styleSheet
              ELSE /\ pc' = "running"
                   /\ err' = "none"
                   /\ styleSheet' = apply_style(r.heap[r.ref])
    /\ lastOp' = "__init__"
    /\ UNCHANGED <<file, mutated>>
    /\ UNCHANGED canvasVars

\* change_theme with the three dialog results; writable: open(CONFIG_FILE, "w") succeeds
ChangeTheme(wc, bc, ft, writable) ==
    /\ pc = "running"
    /\ LET d0 == heap[current_style]
           d1 == IF wc # "invalid" THEN SetItem(d0, "window_color", wc) ELSE d0
           d2 == IF bc # "invalid" THEN SetItem(d1, "button_color", bc) ELSE d1
           d3 == IF ft[2] THEN SetItem(d2, "font", ft[1]) ELSE d2
           h1 == [heap EXCEPT ![current_style] = d3]
       IN  /\ heap' = h1
           /\ styleSheet' = apply_style(d3)
           /\ IF writable
              THEN /\ file' = save_config(h1, current_style)
                   /\ UNCHANGED <<pc, err>>
              ELSE /\ pc' = "crashed"
                   /\ err' = "OSError"
                   /\ file' = file
    /\ mutated' = (mutated \/ wc # "invalid" \/ bc # "invalid" \/ ft[2])
    /\ lastOp' = "change_theme"
    /\ UNCHANGED current_style
    /\ UNCHANGED canvasVars

\* reset_theme
ResetTheme(writable) ==
    /\ pc = "running"
    /\ LET h1 == reset_copy(heap)
       IN  /\ heap' = h1
           /\ current_style' = "c"
           /\ styleSheet' = apply_style(h1.c)
           /\ IF writable
              THEN /\ file' = save_config(h1, "c")
                   /\ UNCHANGED <<pc, err>>
              ELSE /\ pc' = "crashed"
                   /\ err' = "OSError"
                   /\ file' = file
    /\ lastOp' = "reset_theme"
    /\ UNCHANGED mutated
    /\ UNCHANGED canvasVars

----------------------------------------------------------------------------
(* Canvas                                                                  *)

\* PixelArtCanvas(60, 60, display_size=600), scaled down to keep the image finite
WidthPx == 2
HeightPx == 2
DisplaySize == 4
\* the layout gives the label its pixmap's size or MaxGrow pixels more, per axis
MaxGrow == 1
\* a drag may leave the widget by up to PointerMargin pixels on each side
PointerMargin == 1

White == "white"
InitialBrush == "#ff69b4"
\* what QColorDialog.getColor can return: a color, or "invalid" on cancel
PickedColors == {"invalid", White, InitialBrush}
Colors == (PickedColors \ {"invalid"}) \cup {White, InitialBrush}

Cells == (0..(WidthPx - 1)) \X (0..(HeightPx - 1))
WidgetSizes == {DisplaySize, DisplaySize + MaxGrow} \X {DisplaySize, DisplaySize + MaxGrow}
Pointers(wd) == ((0 - PointerMargin)..(wd[1] - 1 + PointerMargin))
                    \X ((0 - PointerMargin)..(wd[2] - 1 + PointerMargin))
Buttons == {"Left", "Right"}
\* what QFileDialog.getSaveFileName can return: "" on cancel
SaveChoices == {"", "out.png", "/readonly/out.png"}
Writable(fn) == fn = "out.png"

\* int(a / b) for b > 0: Python's int() truncates toward zero
IntDiv(a, b) == IF a >= 0 THEN a \div b ELSE 0 - ((0 - a) \div b)

\* x = int(pos.x() * self.width_px / self.width()), y likewise
CellOf(pos, wd) ==
    <<IntDiv(pos[1] * WidthPx, wd[1]), IntDiv(pos[2] * HeightPx, wd[2])>>

\* 0 <= x < self.width_px and 0 <= y < self.height_px
InRange(c) == c[1] >= 0 /\ c[1] < WidthPx /\ c[2] >= 0 /\ c[2] < HeightPx

\* paint_pixel: the image after painting at pos with the brush
paint_pixel_row(img, pos, wd, color) ==
    LET c == CellOf(pos, wd)
    IN  IF InRange(c) THEN [d \in Cells |-> IF d[2] = c[2] THEN color ELSE img[d]] ELSE img

paint_pixel(img, pos, wd, color) ==
    LET c == CellOf(pos, wd)
    IN  IF InRange(c) THEN [img EXCEPT ![c] = color] ELSE img

\* reset_pixel: the image after erasing at pos
reset_pixel(img, pos, wd) ==
    LET c == CellOf(pos, wd)
    IN  IF InRange(c) THEN [img EXCEPT ![c] = White] ELSE img

\* update_display: the pixmap, display_size x display_size, nearest-neighbour
\* scaling of the image with grid lines at int(i * step), step = display_size / width_px
GridLine(i) == IntDiv(i * DisplaySize, WidthPx)
InPixmap(p) == p[1] >= 0 /\ p[1] < DisplaySize /\ p[2] >= 0 /\ p[2] < DisplaySize
SourceCell(p) == <<(p[1] * WidthPx) \div DisplaySize, (p[2] * HeightPx) \div DisplaySize>>
OnGrid(p) == \/ \E i \in 0..WidthPx  : p[1] = GridLine(i)
             \/ \E j \in 0..HeightPx : p[2] = GridLine(j)
update_display(img) ==
    [p \in (0..(DisplaySize - 1)) \X (0..(DisplaySize - 1)) |->
        IF OnGrid(p) THEN "#d8b0ff" ELSE img[SourceCell(p)]]

\* mousePressEvent's effect on the image: left paints, right erases
PressImage(b, pos) ==
    IF b = "Left"
    THEN paint_pixel(image, pos, widget, brush_color)
    ELSE reset_pixel(image, pos, widget)

\* mousePressEvent
MousePress(b, pos) ==
    /\ pc = "running"
    /\ b \notin buttons
    /\ buttons' = buttons \cup {b}
    /\ image' = PressImage(b, pos)
    /\ IF b = "Left"
       THEN /\ drawing' = TRUE
            /\ leftDrag' = TRUE
       ELSE UNCHANGED <<drawing, leftDrag>>
    /\ UNCHANGED <<brush_color, widget, saveResult>>
    /\ UNCHANGED themeVars

\* mouseDoubleClickEvent: delivered instead of the second press of a double click
MouseDoubleClick(b, pos) ==
    /\ pc = "running"
    /\ b \notin buttons
    /\ buttons' = buttons \cup {b}
    /\ image' = reset_pixel(image, pos, widget)
    /\ UNCHANGED <<drawing, leftDrag, brush_color, widget, saveResult>>
    /\ UNCHANGED themeVars

\* mouseMoveEvent's effect on the image: event.buttons() is the set of held buttons
MoveImage(pos) ==
    IF drawing /\ "Left" \in buttons
    THEN paint_pixel(image, pos, widget, brush_color)
    ELSE image

\* mouseMoveEvent: without mouse tracking, delivered only while a button is held
MouseMove(pos) ==
    /\ pc = "running"
    /\ buttons # {}
    /\ image' = MoveImage(pos)
    /\ UNCHANGED <<drawing, leftDrag, buttons, brush_color, widget, saveResult>>
    /\ UNCHANGED themeVars

\* mouseReleaseEvent
MouseRelease(b) ==
    /\ pc = "running"
    /\ b \in buttons
    /\ buttons' = buttons \ {b}
    /\ drawing' = FALSE
    /\ leftDrag' = IF b = "Left" THEN FALSE ELSE leftDrag
    /\ UNCHANGED <<image, brush_color, widget, saveResult>>
    /\ UNCHANGED themeVars

\* change_color
ChangeColor(color) ==
    /\ pc = "running"
    /\ brush_color' = IF color # "invalid" THEN color ELSE brush_color
    /\ UNCHANGED <<image, drawing, buttons, leftDrag, widget, saveResult>>
    /\ UNCHANGED themeVars

\* save_image: QImage.save returns False on failure and the result is dropped
SaveImage(fn) ==
    /\ pc = "running"
    /\ saveResult' = IF fn = "" THEN "not called"
                     ELSE IF Writable(fn) THEN "True" ELSE "False"
    /\ UNCHANGED <<image, drawing, brush_color, buttons, leftDrag, widget>>
    /\ UNCHANGED themeVars

\* the layout resizes the label with the window
Resize(wd) ==
    /\ pc = "running"
    /\ widget' = wd
    /\ UNCHANGED <<image, drawing, brush_color, buttons, leftDrag, saveResult>>
    /\ UNCHANGED themeVars

----------------------------------------------------------------------------
(* Specifications                                                          *)

CanvasInit ==
    /\ image = [c \in Cells |-> White]
    /\ drawing = FALSE
    /\ brush_color = InitialBrush
    /\ buttons = {}
    /\ leftDrag = FALSE
    /\ widget = <<DisplaySize, DisplaySize>>
    /\ saveResult = "not called"

\* the process starts: nothing constructed yet, any config.json on disk
Init ==
    /\ pc = "init"
    /\ err = "none"
    /\ file \in InitialFiles
    /\ heap = [d |-> <<>>, c |-> <<>>]
    /\ current_style = "unset"
    /\ styleSheet = [window |-> "", font |-> "", button |-> ""]
    /\ lastOp = "none"
    /\ mutated = FALSE
    /\ CanvasInit

Next ==
    \/ Startup
    \/ \E wc \in DialogColors, bc \in DialogColors, ft \in DialogFonts, w \in BOOLEAN :
          ChangeTheme(wc, bc, ft, w)
    \/ \E w \in BOOLEAN : ResetTheme(w)

Spec == Init /\ [][Next]_vars

\* the window as constructed with no config.json present
InitCanvas ==
    /\ pc = "running"
    /\ err = "none"
    /\ file = NoFile
    /\ heap = [d |-> DefaultStyleLiteral, c |-> DefaultStyleLiteral]
    /\ current_style = "c"
    /\ styleSheet = apply_style(DefaultStyleLiteral)
    /\ lastOp = "__init__"
    /\ mutated = FALSE
    /\ CanvasInit

NextCanvas ==
    \/ \E b \in Buttons, pos \in Pointers(widget) : MousePress(b, pos)
    \/ \E b \in Buttons, pos \in Pointers(widget) : MouseDoubleClick(b, pos)
    \/ \E pos \in Pointers(widget) : MouseMove(pos)
    \/ \E b \in Buttons : MouseRelease(b)
    \/ \E color \in PickedColors : ChangeColor(color)
    \/ \E wd \in WidgetSizes : Resize(wd)

SpecCanvas == InitCanvas /\ [][NextCanvas]_vars

\* painting together with the export button
NextExport ==
    \/ NextCanvas
    \/ \E fn \in SaveChoices : SaveImage(fn)

SpecExport == InitCanvas /\ [][NextExport]_vars

----------------------------------------------------------------------------
(* Theme store properties (Spec)                                           *)

\* the text json.dump writes for the default record
DefaultText ==
    <<"{", "window_color", ":", "#f3e6ff", ",", "button_color", ":", "#b57edc", ",",
      "font", ":", "Comic Sans MS", "}">>

\* C1: with config.json missing or malformed, the constructor's load_config does
\* not raise and the theme is exactly the hard-coded default.
C1_LoadNeverFails ==
    (lastOp = "__init__" /\ (~file.exists \/ ~JsonLoad(file.text).ok))
        => /\ err = "none"
           /\ current_style # "unset"
           /\ DictEq(heap[current_style], DefaultStyleLiteral)

\* C2: once loaded, the in-memory theme always has window_color, button_color and
\* font, whatever well-formed record config.json held.
C2_FullyPopulated ==
    (pc # "init" /\ current_style # "unset")
        => \A k \in StyleKeys : HasKey(heap[current_style], k)

\* C3: after a completed change_theme or reset_theme, loading config.json returns
\* a dict equal to current_style.
C3_SaveLoadRoundTrip ==
    (pc = "running" /\ lastOp \in {"change_theme", "reset_theme"})
        => /\ file.exists
           /\ LET r == load_config(heap, file)
              IN  /\ r.err = "none"
                  /\ DictEq(r.heap[r.ref], heap[current_style])

C3_Witness ==
    /\ pc = "running"
    /\ lastOp = "change_theme"
    /\ GetItem(heap[current_style], "font") = "Courier"
    /\ GetItem(heap[current_style], "window_color") = "#123456"
    /\ file.exists
    /\ Len(file.text) = Len(DefaultText)

\* C4: after reset_theme the theme equals the hard-coded defaults, and the record
\* default_style names is never altered once the constructor has set it.
C4_ResetGivesDefaults ==
    /\ pc # "init" => heap.d = DefaultStyleLiteral
    /\ lastOp = "reset_theme"
          => /\ current_style # "unset"
             /\ DictEq(heap[current_style], DefaultStyleLiteral)

C4_Witness ==
    /\ lastOp = "reset_theme"
    /\ mutated
    /\ DictEq(heap[current_style], DefaultStyleLiteral)

\* C5 as claimed: reset_theme leaves config.json as it was.
C5_ResetLeavesFile ==
    [][(\E w \in BOOLEAN : ResetTheme(w)) => file' = file]_vars

\* C5 as amended: reset_theme overwrites config.json with the default record
\* whenever the file can be opened for writing, and leaves it alone only when not.
C5_ResetWritesDefaults ==
    [][\A w \in BOOLEAN :
          ResetTheme(w) => file' = IF w THEN FileOf(DefaultText) ELSE file]_vars

C5_Witness ==
    /\ lastOp = "reset_theme"
    /\ pc = "running"
    /\ mutated
    /\ file = FileOf(DefaultText)

----------------------------------------------------------------------------
(* Canvas properties (SpecCanvas, SpecExport)                              *)

FloorCell(pos, wd) == <<(pos[1] * WidthPx) \div wd[1], (pos[2] * HeightPx) \div wd[2]>>

\* C6: a left press at (px, py) paints the cell floor(px * width_px / width),
\* floor(py * height_px / height) when that cell is in range and nothing otherwise;
\* so a press at a negative coordinate paints nothing.
C6_FloorMapping ==
    [][\A pos \in Pointers(widget) :
          MousePress("Left", pos)
              => image' = IF InRange(FloorCell(pos, widget))
                          THEN [image EXCEPT ![FloorCell(pos, widget)] = brush_color]
                          ELSE image]_vars

\* C7: in every reachable state, a paint (a left press, or a move of a left drag)
\* at any pointer position sets the addressed cell to the brush color and leaves
\* every other cell alone, or changes nothing when the cell is out of range; and
\* every cell has a color.
C7_PaintFrame ==
    /\ DOMAIN image = Cells
    /\ \A c \in Cells : image[c] \in Colors
    /\ \A pos \in Pointers(widget) :
          LET c     == CellOf(pos, widget)
              after == PressImage("Left", pos)
              moved == MoveImage(pos)
          IN  /\ IF InRange(c)
                 THEN /\ after[c] = brush_color
                      /\ \A d \in Cells \ {c} : after[d] = image[d]
                 ELSE after = image
              /\ (drawing /\ "Left" \in buttons) => moved = after

C7_Witness ==
    /\ drawing
    /\ \E c \in Cells :
          /\ image[c] = InitialBrush
          /\ \A d \in Cells \ {c} : image[d] = White

\* C8: a save_image whose write failed ends in an IOError.
C8_ExportFailureSurfaced ==
    saveResult = "False" => (pc = "crashed" /\ err = "IOError")

\* C9: while a left-button drag is in progress every move over an in-range cell
\* paints it with the brush color; with the left button released no move paints.
C9_DragPaints ==
    \A pos \in Pointers(widget) :
        /\ (leftDrag /\ InRange(CellOf(pos, widget)))
              => MoveImage(pos)[CellOf(pos, widget)] = brush_color
        /\ "Left" \notin buttons => MoveImage(pos) = image

\* C10: the cell a left press modifies is the cell whose block of the pixmap
\* contains the pointer (stated for pointers at non-negative coordinates).
C10_PaintedCellIsDisplayed ==
    [][\A pos \in Pointers(widget) :
          (MousePress("Left", pos) /\ pos[1] >= 0 /\ pos[2] >= 0
              /\ InRange(CellOf(pos, widget)))
              => (InPixmap(pos) /\ SourceCell(pos) = CellOf(pos, widget))]_vars

====
